---------------------------- MODULE Spec2Model ----------------------------
(***************************************************************************)
(* Model of pkl-proxy's credential cache and authenticating transport.     *)
(*                                                                         *)
(* The repository holds two designs of the transport: the owner-keyed      *)
(* TokenManager (auth.go, proxy.go:1-196) and the single process-wide      *)
(* token source (proxy.go:198-370).  `variant` selects which one the       *)
(* GithubTripper of a behaviour is wired with.                             *)
(*                                                                         *)
(* Each goroutine of Procs serves one outbound request at a time through    *)
(* GithubTripper.RoundTrip; its position in the code is gor[p].pc.  The     *)
(* sync.RWMutex tm.mu is modelled as Go implements it: a writer first takes *)
(* the writer slot (which turns new readers away) and then waits for the    *)
(* readers that are already inside to leave.                               *)
(***************************************************************************)
EXTENDS Integers, FiniteSets, Sequences, TLC

\* ------------------------------------------------------------------ bounds
NumProcs == 2
MaxRequests == 2
\* the longest asset list a release answers with
MaxAssets == 3
\* the most installations the provider lists
MaxInstallations == 2
\* the most requests in flight in the server at once
MaxInflight == 2
\* main.go:161 the grace period of the shutdown, in seconds
GraceTicks == 5

\* ------------------------------------------------------------- value sets
Procs == 1..NumProcs
Owners == {"acme", "other"}
Repos == {"widgets", "other-widgets"}
InstallIds == {41, 42}

\* a nil *int installationId / the zero int returned beside an error
NoInstallation == 0
\* a nil oauth2.TokenSource (absent map entry, unset local)
NoSource == [inst |-> 0, owner |-> "", n |-> 0]
\* no goroutine (the writer slot of tm.mu is free)
NoProc == 0

VARIABLES
    variant,        \* "manager": GithubTripper{tm}; "single": GithubTripper{tokenSource}
    installationId, \* tm.installationId, NoInstallation when not configured
    tokenSource,    \* GithubTripper.tokenSource of the single-source variant
    cache,          \* tm.cache: owner -> token source
    wOwner,         \* goroutine inside tm.mu.Lock() .. tm.mu.Unlock(), or NoProc
    readers,        \* goroutines between tm.mu.RLock() and tm.mu.RUnlock()
    gor,            \* per goroutine: position and locals of the request it serves
    nreq,           \* number of requests handed to the transport so far
    sent,           \* requests handed to http.DefaultTransport, with their header
    factoryCalls,   \* per owner: invocations of the factory closure
    mintFailed,     \* sources built by a call whose ts.Token() then failed
    hnd,            \* the route handler serving one inbound request (proxy.go)
    boot            \* startProxy: configuration, token source, server (main.go)

vars == <<variant, installationId, tokenSource, cache, wOwner, readers, gor,
          nreq, sent, factoryCalls, mintFailed, hnd, boot>>

\* the transport's variables, and the two that the transport leaves alone
transportVars == <<variant, installationId, tokenSource, cache, wOwner, readers,
                   gor, nreq, sent, factoryCalls, mintFailed>>

\* the locals of a goroutine that serves no request
Idle ==
    [pc |-> "idle", bound |-> FALSE, owner |-> "", repo |-> "",
     ts |-> NoSource, ok |-> FALSE, installationID |-> NoInstallation,
     err |-> "", delegated |-> FALSE,
     startHit |-> FALSE, lookups |-> 0, made |-> 0]

\* no inbound request is being handled: the handler's locals, the response
\* writer and the upstream bodies before ServeHTTP is called
NoRequest ==
    [pc |-> "idle", method |-> "", path |-> <<>>, route |-> 0,
     user |-> "", repo |-> "",
     tag |-> "", file |-> "", want |-> "", bound |-> FALSE,
     call |-> "", ctx |-> "", cached |-> FALSE, cancelled |-> FALSE,
     assets |-> <<>>, i |-> 0,
     metaCalls |-> 0, assetCalls |-> 0, fetched |-> 0,
     metaResult |-> "", assetResult |-> "",
     metaBody |-> "none", assetBody |-> "none",
     status |-> 0, wrote |-> "none", detached |-> FALSE,
     body |-> 0, upstream |-> 0,
     prev |-> [assets |-> <<>>, fetched |-> 0, body |-> 0,
               metaCalls |-> 0, assetCalls |-> 0]]

\* startProxy has not been called
NotStarted ==
    [pc |-> "off", appId |-> FALSE, clientId |-> FALSE,
     installationId |-> NoInstallation, keyOk |-> FALSE,
     identity |-> "", listed |-> "no", installations |-> <<>>,
     printed |-> "none", manager |-> FALSE, source |-> NoInstallation,
     err |-> "", server |-> FALSE,
     mode |-> "", listener |-> "none", inflight |-> 0,
     shutdown |-> "no", grace |-> 0, cmd |-> "none", launchedWith |-> ""]

\* the transport before its first request: an empty cache, a free lock
TransportInit ==
    /\ cache = [o \in Owners |-> NoSource]
    /\ wOwner = NoProc
    /\ readers = {}
    /\ gor = [p \in Procs |-> Idle]
    /\ nreq = 0
    /\ sent = {}
    /\ factoryCalls = [o \in Owners |-> 0]
    /\ mintFailed = {}

\* the wiring of the transport: which GithubTripper, over which source
Wiring ==
    /\ variant \in {"manager", "single"}
    /\ \/ /\ variant = "manager"
          /\ installationId \in {NoInstallation} \cup InstallIds
          /\ tokenSource = NoSource
       \/ /\ variant = "single"
          /\ installationId = NoInstallation
          /\ tokenSource \in {[inst |-> i, owner |-> "", n |-> 1] : i \in InstallIds}

Init ==
    /\ Wiring
    /\ TransportInit
    /\ hnd = NoRequest
    /\ boot = NotStarted

\* ------------------------------------------------- GithubTripper.RoundTrip
\* withRepo / a bare context: the locals of a goroutine that was just handed a
\* request whose context binds (owner, repo) when b holds, and nothing otherwise
Request(b, o, r) ==
    [Idle EXCEPT !.bound = b,
                 !.owner = IF b THEN o ELSE "",
                 !.repo = IF b THEN r ELSE "",
                 !.startHit = b /\ cache[o] # NoSource]

\* mutant: the ok flag of the binding is not checked
repoFromContext_Unchecked(g) ==
    TRUE

\* repoFromContext: the ok flag of the (owner, repo) binding read back
repoFromContext(g) ==
    g.bound

\* mutant: the configured installation id is not consulted
UsesFixedInstallation_Never ==
    FALSE

\* auth.go:68: a configured installation id sends every call to getOrSetSource
UsesFixedInstallation ==
    installationId # NoInstallation

\* mutant: TokenForRepo skips the read-locked lookup in either mode
TokenForRepo_NoSharedRead ==
    "gos_lock"

\* auth.go:66-76: where TokenForRepo starts: straight into getOrSetSource with
\* a fixed installation, at the read-locked lookup otherwise
TokenForRepo ==
    IF UsesFixedInstallation THEN "gos_lock" ELSE "rlock"

\* proxy.go:185-190: RoundTrip is handed a request; without a binding it fails
\* at once, with one it calls TokenForRepo
RoundTrip(p) ==
    /\ variant = "manager"
    /\ gor[p].pc \in {"idle", "done"}
    /\ nreq < MaxRequests
    /\ nreq' = nreq + 1
    /\ \E b \in BOOLEAN, o \in Owners, r \in Repos :
          gor' = [gor EXCEPT ![p] =
                    IF ~repoFromContext(Request(b, o, r))
                    THEN [Request(b, o, r) EXCEPT !.pc = "done", !.err = "noctx"]
                    ELSE [Request(b, o, r) EXCEPT !.pc = TokenForRepo]]
    /\ UNCHANGED <<hnd, boot>>
    /\ UNCHANGED <<variant, installationId, tokenSource, cache, wOwner, readers,
                   sent, factoryCalls, mintFailed>>

\* proxy.go:363-364: the single-source transport is handed a request; it reads
\* no binding and asks its one token source
RoundTripSingle(p) ==
    /\ variant = "single"
    /\ gor[p].pc \in {"idle", "done"}
    /\ nreq < MaxRequests
    /\ nreq' = nreq + 1
    /\ \E b \in BOOLEAN, o \in Owners, r \in Repos :
          gor' = [gor EXCEPT ![p] =
                    [Request(b, o, r) EXCEPT !.pc = "token", !.ts = tokenSource]]
    /\ UNCHANGED <<hnd, boot>>
    /\ UNCHANGED <<variant, installationId, tokenSource, cache, wOwner, readers,
                   sent, factoryCalls, mintFailed>>

\* ------------------------------------------------ TokenManager.TokenForRepo
\* auth.go:76 tm.mu.RLock(): blocks while a writer holds or awaits the lock
RLock(p) ==
    /\ gor[p].pc = "rlock"
    /\ wOwner = NoProc
    /\ readers' = readers \cup {p}
    /\ gor' = [gor EXCEPT ![p].pc = "rread"]
    /\ UNCHANGED <<hnd, boot>>
    /\ UNCHANGED <<variant, installationId, tokenSource, cache, wOwner,
                   nreq, sent, factoryCalls, mintFailed>>

\* auth.go:77 ts, ok := tm.cache[owner]
CacheRead(p) ==
    /\ gor[p].pc = "rread"
    /\ gor' = [gor EXCEPT ![p].pc = "runlock",
                          ![p].ts = cache[gor[p].owner],
                          ![p].ok = cache[gor[p].owner] # NoSource]
    /\ UNCHANGED <<hnd, boot>>
    /\ UNCHANGED <<variant, installationId, tokenSource, cache, wOwner, readers,
                   nreq, sent, factoryCalls, mintFailed>>

\* mutant: the result of the read-locked lookup is not used
AfterRead_AlwaysLookup(p) ==
    "lookup"

\* auth.go:79-84: a hit goes to ts.Token(), a miss to the installation lookup
AfterRead(p) ==
    IF gor[p].ok THEN "token" ELSE "lookup"

\* mutant: the read lock is not released before the lookup
ReadersAfterRUnlock_Kept(p) ==
    readers

\* auth.go:78 tm.mu.RUnlock()
ReadersAfterRUnlock(p) ==
    readers \ {p}

\* auth.go:78-84
RUnlock(p) ==
    /\ gor[p].pc = "runlock"
    /\ readers' = ReadersAfterRUnlock(p)
    /\ gor' = [gor EXCEPT ![p].pc = AfterRead(p)]
    /\ UNCHANGED <<hnd, boot>>
    /\ UNCHANGED <<variant, installationId, tokenSource, cache, wOwner,
                   nreq, sent, factoryCalls, mintFailed>>

\* mutant: the error of the lookup is not checked
AfterLookup_Unchecked(failed) ==
    "gos_lock"

\* auth.go:85-89: an error of the lookup (failed) ends TokenForRepo, an id
\* takes it to getOrSetSource
AfterLookup(failed) ==
    IF failed THEN "done" ELSE "gos_lock"

\* auth.go:84-87, 111-142: the lookup is a network call; it returns the id the
\* provider names, or 0 and an error (app token, transport, status, decoding)
lookupRepoInstallation(p) ==
    /\ gor[p].pc = "lookup"
    /\ \/ \E id \in InstallIds :
             gor' = [gor EXCEPT ![p].pc = AfterLookup(FALSE),
                                ![p].installationID = id,
                                ![p].lookups = @ + 1]
       \/ gor' = [gor EXCEPT ![p].pc = AfterLookup(TRUE),
                             ![p].installationID = NoInstallation,
                             ![p].err = "lookup",
                             ![p].lookups = @ + 1]
    /\ UNCHANGED <<hnd, boot>>
    /\ UNCHANGED <<variant, installationId, tokenSource, cache, wOwner, readers,
                   nreq, sent, factoryCalls, mintFailed>>

\* ---------------------------------------------- TokenManager.getOrSetSource
\* auth.go:99 tm.mu.Lock(), first half: take the writer slot; from here on
\* new readers are turned away
Lock(p) ==
    /\ gor[p].pc = "gos_lock"
    /\ wOwner = NoProc
    /\ wOwner' = p
    /\ gor' = [gor EXCEPT ![p].pc = "gos_wait"]
    /\ UNCHANGED <<hnd, boot>>
    /\ UNCHANGED <<variant, installationId, tokenSource, cache, readers,
                   nreq, sent, factoryCalls, mintFailed>>

\* auth.go:99 tm.mu.Lock(), second half: wait until the readers inside left
LockAcquired(p) ==
    /\ gor[p].pc = "gos_wait"
    /\ wOwner = p
    /\ readers = {}
    /\ gor' = [gor EXCEPT ![p].pc = "gos_check"]
    /\ UNCHANGED <<hnd, boot>>
    /\ UNCHANGED <<variant, installationId, tokenSource, cache, wOwner, readers,
                   nreq, sent, factoryCalls, mintFailed>>

\* mutant: the exclusive section does not look at the map again
CachedInLock_NoRecheck(p) ==
    FALSE

\* auth.go:101 if ts, ok := tm.cache[owner]; ok
CachedInLock(p) ==
    cache[gor[p].owner] # NoSource

\* mutant: the factory is invoked on a hit as well
AfterRecheck_AlwaysBuild(hit) ==
    "gos_factory"

\* mutant: a hit returns from getOrSetSource without the Unlock
AfterRecheck_HitKeepsLock(hit) ==
    IF hit THEN "token" ELSE "gos_factory"

\* auth.go:101-104: a hit returns (through the deferred Unlock), a miss goes
\* on to the factory
AfterRecheck(hit) ==
    IF hit THEN "gos_unlock" ELSE "gos_factory"

\* auth.go:101-103: the re-check inside the exclusive section
Recheck(p) ==
    /\ gor[p].pc = "gos_check"
    /\ gor' = [gor EXCEPT ![p].pc = AfterRecheck(CachedInLock(p)),
                          ![p].ok = CachedInLock(p),
                          ![p].ts = IF CachedInLock(p) THEN cache[gor[p].owner]
                                                       ELSE @]
    /\ UNCHANGED <<hnd, boot>>
    /\ UNCHANGED <<variant, installationId, tokenSource, cache, wOwner, readers,
                   nreq, sent, factoryCalls, mintFailed>>

\* mutant: the factory builds from a default installation, not the one found
FactoryInstallation_Default(p) ==
    IF UsesFixedInstallation THEN installationId ELSE 41

\* auth.go:69-71, 89-91: the installation id the factory closure builds from
FactoryInstallation(p) ==
    IF UsesFixedInstallation THEN installationId ELSE gor[p].installationID

\* auth.go:104 ts := factory(): githubauth.NewInstallationTokenSource builds a
\* new source object (named here by its owner key and the count of factory
\* invocations for that key); no network
Factory(p) ==
    /\ gor[p].pc = "gos_factory"
    /\ gor' = [gor EXCEPT ![p].pc = "gos_store",
                          ![p].ts = [inst |-> FactoryInstallation(p),
                                     owner |-> gor[p].owner,
                                     n |-> factoryCalls[gor[p].owner] + 1],
                          ![p].made = @ + 1]
    /\ factoryCalls' = [factoryCalls EXCEPT ![gor[p].owner] = @ + 1]
    /\ UNCHANGED <<hnd, boot>>
    /\ UNCHANGED <<variant, installationId, tokenSource, cache, wOwner, readers,
                   nreq, sent, mintFailed>>

\* mutant: the store replaces the whole map by one holding only this entry
StoredCache_Rebuilt(p) ==
    [o \in Owners |-> IF o = gor[p].owner THEN gor[p].ts ELSE NoSource]

\* mutant: the source is stored under another owner's key
StoredCache_OtherKey(p) ==
    [cache EXCEPT ![CHOOSE o \in Owners : o # gor[p].owner] = gor[p].ts]

\* auth.go:105: the map after tm.cache[owner] = ts
StoredCache(p) ==
    [cache EXCEPT ![gor[p].owner] = gor[p].ts]

\* auth.go:105 tm.cache[owner] = ts
Store(p) ==
    /\ gor[p].pc = "gos_store"
    /\ cache' = StoredCache(p)
    /\ gor' = [gor EXCEPT ![p].pc = "gos_unlock"]
    /\ UNCHANGED <<hnd, boot>>
    /\ UNCHANGED <<variant, installationId, tokenSource, wOwner, readers,
                   nreq, sent, factoryCalls, mintFailed>>

\* mutant: the write lock is still held when getOrSetSource has returned
WriterAfterUnlock_Kept(p) ==
    p

\* auth.go:100 defer tm.mu.Unlock(): the writer slot after the deferred call
WriterAfterUnlock(p) ==
    NoProc

\* auth.go:100, 72, 92: getOrSetSource returns, the caller goes to ts.Token()
Unlock(p) ==
    /\ gor[p].pc = "gos_unlock"
    /\ wOwner' = WriterAfterUnlock(p)
    /\ gor' = [gor EXCEPT ![p].pc = "token"]
    /\ UNCHANGED <<hnd, boot>>
    /\ UNCHANGED <<variant, installationId, tokenSource, cache, readers,
                   nreq, sent, factoryCalls, mintFailed>>

\* ------------------------------------------------------------- ts.Token()
\* mutant: the error of Token() is not checked
AfterToken_Unchecked(failed) ==
    "send"

\* proxy.go:191-193, 365-367: where RoundTrip goes when Token() returned an
\* error (failed) or a token
AfterToken(failed) ==
    IF failed THEN "done" ELSE "send"

\* auth.go:72, 80, 92, proxy.go:364: ts.Token() is a network call when the
\* source has to mint or refresh; it returns a token or an error
Token(p) ==
    /\ gor[p].pc = "token"
    /\ \E failed \in BOOLEAN :
          /\ gor' = [gor EXCEPT ![p].pc = AfterToken(failed),
                                ![p].err = IF failed THEN "token" ELSE ""]
          /\ mintFailed' = IF failed /\ gor[p].made > 0
                           THEN mintFailed \cup {gor[p].ts}
                           ELSE mintFailed
    /\ UNCHANGED <<hnd, boot>>
    /\ UNCHANGED <<variant, installationId, tokenSource, cache, wOwner, readers,
                   nreq, sent, factoryCalls>>

\* proxy.go:194-195, 368-369: set the Authorization header from the token of
\* ts and hand the request to http.DefaultTransport
Delegate(p) ==
    /\ gor[p].pc = "send"
    /\ sent' = sent \cup {[bound |-> gor[p].bound, owner |-> gor[p].owner,
                           auth |-> gor[p].ts]}
    /\ gor' = [gor EXCEPT ![p].pc = "done", ![p].delegated = TRUE]
    /\ UNCHANGED <<hnd, boot>>
    /\ UNCHANGED <<variant, installationId, tokenSource, cache, wOwner, readers,
                   nreq, factoryCalls, mintFailed>>

Next ==
    \E p \in Procs :
        \/ RoundTrip(p)
        \/ RoundTripSingle(p)
        \/ RLock(p)
        \/ CacheRead(p)
        \/ RUnlock(p)
        \/ lookupRepoInstallation(p)
        \/ Lock(p)
        \/ LockAcquired(p)
        \/ Recheck(p)
        \/ Factory(p)
        \/ Store(p)
        \/ Unlock(p)
        \/ Token(p)
        \/ Delegate(p)

Spec == Init /\ [][Next]_vars

\* a step of p's call once RoundTrip has started it: the lock operations, the
\* map accesses, and the network calls returning
Step(p) ==
    \/ RLock(p)
    \/ CacheRead(p)
    \/ RUnlock(p)
    \/ lookupRepoInstallation(p)
    \/ Lock(p)
    \/ LockAcquired(p)
    \/ Recheck(p)
    \/ Factory(p)
    \/ Store(p)
    \/ Unlock(p)
    \/ Token(p)
    \/ Delegate(p)

\* the Go scheduler runs every goroutine that can run, and the network calls
\* return
SpecFair == Spec /\ \A p \in Procs : WF_vars(Step(p))

\* ------------------------------------------------------------ vocabulary
\* the transport is wired with the TokenManager
ManagerVariant == variant = "manager"

\* the TokenManager discovers installations (no installationId configured)
DynamicMode == ManagerVariant /\ installationId = NoInstallation

\* the TokenManager has a configured installationId
FixedMode == ManagerVariant /\ installationId # NoInstallation

\* p's TokenForRepo call holds the source it was given (by the read-locked
\* lookup or by getOrSetSource)
HoldsSource(p) ==
    \/ gor[p].pc \in {"token", "send"}
    \/ gor[p].pc = "done" /\ gor[p].err \in {"", "token"}

\* p's call went through getOrSetSource
WentThroughGetOrSet(p) ==
    FixedMode \/ gor[p].lookups = 1

\* the positions inside the exclusive section of tm.mu
ExclusiveSection == {"gos_check", "gos_factory", "gos_store", "gos_unlock"}

\* the positions at which a goroutine is suspended on a network call
NetworkCall == {"lookup", "token"}

\* C1: concurrent get-or-create calls for one owner key invoke the factory
\* once for that key, and every call that was given a source holds the one
\* source stored under its key.
AtMostOneCreation ==
    ManagerVariant =>
        /\ \A o \in Owners : factoryCalls[o] <= 1
        /\ \A p \in Procs :
              (HoldsSource(p) \/ gor[p].pc = "gos_unlock")
                  => gor[p].ts = cache[gor[p].owner]
        /\ \A p, q \in Procs :
              (HoldsSource(p) /\ HoldsSource(q) /\ gor[p].owner = gor[q].owner)
                  => gor[p].ts = gor[q].ts

\* C1 witness: two calls for one owner that both started without an entry and
\* both went through getOrSetSource; one built the source, the other lost the
\* race and holds the winner's source.
RaceLoserReusesWinner ==
    \E p, q \in Procs :
        /\ p # q
        /\ ManagerVariant
        /\ gor[p].pc = "token" /\ gor[q].pc = "token"
        /\ gor[p].owner = gor[q].owner
        /\ ~gor[p].startHit /\ ~gor[q].startHit
        /\ WentThroughGetOrSet(p) /\ WentThroughGetOrSet(q)
        /\ gor[p].made = 1 /\ gor[q].made = 0
        /\ gor[p].ts = gor[q].ts

\* C2: getOrSetSource returns the stored source on a hit, with no factory
\* invocation and the map unchanged; on a miss it invokes the factory once,
\* stores the result under the key and returns it.
GetOrSetContract ==
    [][ /\ \A p \in Procs :
              (gor[p].pc = "gos_check" /\ gor'[p].pc # "gos_check") =>
                  /\ gor'[p].ok = (cache[gor[p].owner] # NoSource)
                  /\ cache' = cache
                  /\ factoryCalls' = factoryCalls
                  /\ gor'[p].ok =>
                        /\ gor'[p].pc = "gos_unlock"
                        /\ gor'[p].ts = cache[gor[p].owner]
        /\ \A p \in Procs :
              gor'[p].pc = "gos_unlock" =>
                  /\ gor'[p].ts # NoSource
                  /\ gor'[p].ts = cache'[gor'[p].owner]
                  /\ gor'[p].made = IF gor'[p].ok THEN 0 ELSE 1
        /\ (cache' # cache \/ factoryCalls' # factoryCalls) =>
              \E p \in Procs :
                  /\ ~gor[p].ok
                  /\ gor[p].pc \in {"gos_factory", "gos_store"}
                  /\ cache[gor[p].owner] = NoSource
                  /\ gor[p].pc = "gos_factory" =>
                        /\ cache' = cache
                        /\ factoryCalls' =
                              [factoryCalls EXCEPT ![gor[p].owner] = @ + 1]
                  /\ gor[p].pc = "gos_store" =>
                        /\ cache' = [cache EXCEPT ![gor[p].owner] = gor[p].ts]
                        /\ factoryCalls' = factoryCalls
      ]_vars

\* C2 witness: one call is about to return from a hit inside the exclusive
\* section while the call that missed, built and stored the source has returned.
HitAndMissBothReturned ==
    \E p, q \in Procs :
        /\ gor[p].pc = "gos_unlock" /\ gor[p].ok /\ gor[p].made = 0
        /\ gor[q].pc = "token" /\ ~gor[q].ok /\ gor[q].made = 1
        /\ gor[p].ts = gor[q].ts

\* C3: once a key is mapped to a source it stays mapped to that source in
\* every later state, and no second source is ever built for a key.
CacheOnlyGrows ==
    [][ \A o \in Owners :
            /\ cache[o] # NoSource => cache'[o] = cache[o]
            /\ cache[o] # NoSource => factoryCalls'[o] = factoryCalls[o]
      ]_vars

\* C3 witness: a call that started when its key was already mapped has come
\* back, and the key is still mapped to the source that call was given.
EntryKeptForLaterCall ==
    \E p \in Procs :
        /\ ManagerVariant
        /\ gor[p].pc = "done" /\ gor[p].delegated
        /\ gor[p].startHit /\ gor[p].made = 0
        /\ gor[p].ts = cache[gor[p].owner]

\* p waits for tm.mu because of q: q holds or awaits the write lock while p
\* wants the lock, or q is a reader inside while p awaits the write lock
WaitsFor(p, q) ==
    /\ p # q
    /\ \/ gor[p].pc \in {"rlock", "gos_lock"} /\ wOwner = q
       \/ gor[p].pc = "gos_wait" /\ q \in readers

\* C4 as stated: a call for one key never waits on the lock because of a call
\* for another key, and each key gets its own entry.
DifferentKeysNeverWait ==
    /\ \A p, q \in Procs :
          WaitsFor(p, q) => gor[p].owner = gor[q].owner
    /\ \A o \in Owners : cache[o] # NoSource => cache[o].owner = o

\* C4 amended: a call waits because of a call for another key only while that
\* call is inside the read-locked lookup or the exclusive check-and-insert
\* (or queued for it), never while it is suspended on a network call or after
\* it returned; and every entry is a source built for its own key.
DifferentKeysWaitOnlyForMapSection ==
    /\ \A p, q \in Procs :
          (WaitsFor(p, q) /\ gor[p].owner # gor[q].owner) =>
              gor[q].pc \in {"rread", "runlock", "gos_wait"} \cup ExclusiveSection
    /\ \A o \in Owners : cache[o] # NoSource => cache[o].owner = o

\* C4 witness: a call for one key waits for the lock because of a call for
\* the other key.
WaitsAcrossKeys ==
    \E p, q \in Procs :
        WaitsFor(p, q) /\ gor[p].bound /\ gor[q].bound
            /\ gor[p].owner # gor[q].owner

\* C5: the write lock is held only inside the check-and-insert; a goroutine
\* suspended on the installation lookup or on ts.Token() does not hold it.
NoNetworkCallUnderWriteLock ==
    /\ \A p \in Procs : gor[p].pc \in NetworkCall => wOwner # p
    /\ wOwner # NoProc => gor[wOwner].pc \in {"gos_wait"} \cup ExclusiveSection

\* C5 witness: one goroutine is inside the exclusive section while another,
\* that has been through it, is suspended on ts.Token().
NetworkCallBesideWriter ==
    \E p, q \in Procs :
        /\ gor[p].pc = "token" /\ gor[p].made = 1
        /\ wOwner = q /\ gor[q].pc \in ExclusiveSection

DynamicDiscoveryMode ==
    (ManagerVariant /\ installationId = NoInstallation) =>
        \A p \in Procs :
            /\ gor[p].lookups <= 1
            /\ gor[p].made = 1 =>
                  /\ gor[p].lookups = 1
                  /\ gor[p].installationID \in InstallIds
                  /\ gor[p].ts.inst = gor[p].installationID
            /\ gor[p].startHit =>
                  /\ gor[p].lookups = 0
                  /\ gor[p].made = 0
                  /\ gor[p].pc \notin {"lookup", "gos_lock", "gos_wait"}
                                          \cup ExclusiveSection
                  /\ HoldsSource(p) => gor[p].ts = cache[gor[p].owner]

\* C7 witness: the call that discovered the installation and built the source
\* has completed, and a later call for the same owner and another repository
\* is given that source without a lookup.
LaterCallOtherRepoReuses ==
    \E p, q \in Procs :
        /\ ManagerVariant /\ installationId = NoInstallation
        /\ gor[q].pc = "done" /\ gor[q].delegated
        /\ gor[q].lookups = 1 /\ gor[q].made = 1
        /\ gor[p].pc = "send" /\ gor[p].startHit /\ gor[p].lookups = 0
        /\ gor[p].owner = gor[q].owner /\ gor[p].repo # gor[q].repo
        /\ gor[p].ts = gor[q].ts

\* C8 as stated: a request whose context binds no (owner, repo) fails and is
\* not handed to the network transport, whichever GithubTripper serves it; and
\* no request is sent without an Authorization header.
UnboundNeverSent ==
    /\ \A p \in Procs :
          (gor[p].pc # "idle" /\ ~gor[p].bound) =>
              /\ gor[p].pc # "send"
              /\ ~gor[p].delegated
              /\ gor[p].pc = "done" => gor[p].err # ""
    /\ \A m \in sent : m.bound /\ m.auth # NoSource

\* C8 amended: the TokenManager-backed transport fails a request without a
\* binding at once, with an error, and never sends it; with either transport
\* every request that is sent carries the header of a token source.
UnboundNeverSentByManager ==
    /\ ManagerVariant =>
          /\ \A p \in Procs :
                (gor[p].pc # "idle" /\ ~gor[p].bound) =>
                    /\ gor[p].pc = "done"
                    /\ gor[p].err = "noctx"
                    /\ ~gor[p].delegated
                    /\ gor[p].ts = NoSource
          /\ \A m \in sent : m.bound
    /\ \A m \in sent : m.auth # NoSource
    /\ \A p \in Procs : gor[p].pc = "send" => gor[p].ts # NoSource

\* C8 witness: the TokenManager-backed transport has failed a request without
\* a binding and has sent one with a binding.
UnboundFailedBoundSent ==
    /\ ManagerVariant
    /\ \E p \in Procs : gor[p].pc = "done" /\ ~gor[p].bound /\ gor[p].err = "noctx"
    /\ \E m \in sent : m.bound

\* C9: when the installation lookup or ts.Token() fails, RoundTrip returns an
\* error and the request is not handed to the network transport.
TokenFailureNotSent ==
    /\ \A p \in Procs :
          gor[p].err \in {"lookup", "token"} =>
              gor[p].pc = "done" /\ ~gor[p].delegated
    /\ \A p \in Procs :
          (gor[p].pc = "send" \/ gor[p].delegated) => gor[p].err = ""

\* C9 witness: one request has failed on the installation lookup and one on
\* ts.Token(); nothing was sent.
BothFailuresReturned ==
    /\ \E p \in Procs : gor[p].pc = "done" /\ gor[p].err = "lookup"
    /\ \E p \in Procs : gor[p].pc = "done" /\ gor[p].err = "token"
    /\ sent = {}

\* C10 as stated: a failed call leaves nothing behind for its owner: no cache
\* entry is a source built by a call that then failed, and no call is given
\* such a source.
FailedCallLeavesNothing ==
    DynamicMode =>
        /\ \A o \in Owners : cache[o] \notin mintFailed
        /\ \A p \in Procs : HoldsSource(p) /\ gor[p].made = 0
                                => gor[p].ts \notin mintFailed

\* C10 amended: a call that fails on the installation lookup has built and
\* stored nothing, so a later call for that owner can only get a source by
\* making its own lookup; a call that fails on ts.Token() leaves the source it
\* was given in the cache, and a call that starts afterwards is given that
\* source without a lookup and asks it for a token again.
FailedLookupLeavesNothingFailedMintLeavesSource ==
    ManagerVariant =>
        /\ \A p \in Procs :
              gor[p].err = "lookup" =>
                  /\ gor[p].pc = "done"
                  /\ gor[p].made = 0
                  /\ gor[p].ts = NoSource
                  /\ gor[p].installationID = NoInstallation
        /\ \A p \in Procs :
              gor[p].err = "token" =>
                  gor[p].ts # NoSource /\ cache[gor[p].owner] = gor[p].ts
        /\ \A src \in mintFailed : cache[src.owner] = src
        /\ \A p \in Procs :
              (DynamicMode /\ HoldsSource(p)) =>
                  /\ gor[p].ts = cache[gor[p].owner]
                  /\ gor[p].startHit => gor[p].lookups = 0
                  /\ gor[p].lookups = 0 => gor[p].made = 0

\* C10 witness: a call built and stored a source and its ts.Token() failed; a
\* later call for that owner was given the stored source without a lookup,
\* got a token from it and was sent.
MintRetriedThroughCachedSource ==
    \E p \in Procs :
        /\ DynamicMode
        /\ gor[p].pc = "done" /\ gor[p].delegated
        /\ gor[p].startHit /\ gor[p].lookups = 0 /\ gor[p].made = 0
        /\ gor[p].ts \in mintFailed

\* ======================================================================
\* The route handlers (proxy.go:38-168, and the same code at 218-346)
\* ======================================================================
Methods == {"GET", "POST"}

\* asset names and path segments that differ in case or by a suffix only
Names == {"a", "A", "ab"}

\* proxy.go:47-49: the three patterns handed to the mux, segment by segment
Wild(name) == [wild |-> TRUE, name |-> name]
Lit(text) == [wild |-> FALSE, name |-> text]
Patterns ==
    << <<Wild("user"), Wild("repo"), Wild("tag")>>,
       <<Wild("user"), Wild("repo"), Wild("tag"), Wild("file")>>,
       <<Wild("user"), Wild("repo"), Lit("releases"), Lit("download"),
         Wild("tag"), Wild("file")>> >>

\* the request paths tried, as their segments
Paths ==
    {<<>>, <<"acme">>, <<"acme", "widgets">>}
    \cup {<<"acme", "widgets", t>> : t \in Names}
    \cup {<<"acme", "widgets", "v1", f>> : f \in Names}
    \cup {<<"other", "other-widgets", "v1">>,
          <<"acme", "widgets", "releases", "download">>,
          <<"acme", "widgets", "releases", "download", "v1">>,
          <<"acme", "widgets", "releases", "other", "v1", "a">>}
    \cup {<<"acme", "widgets", "releases", "download", "v1", f>> : f \in Names}

\* the asset lists a release may answer with: names in provider order; the
\* API URL of the asset at position k is named k
AssetLists ==
    UNION {[1..n -> Names] : n \in 0..MaxAssets}

\* net/http.ServeMux: a path matches a pattern when it has as many segments
\* and agrees with every literal segment
PathMatches(pat, path) ==
    /\ Len(pat) = Len(path)
    /\ \A k \in 1..Len(pat) : pat[k].wild \/ pat[k].name = path[k]

\* the mux picks the pattern by the path alone: the patterns at proxy.go:47-49
\* name no method
MethodMatches(method) ==
    TRUE

\* the pattern that serves a request, 0 when none does
Route(method, path) ==
    IF MethodMatches(method)
          /\ \E r \in 1..Len(Patterns) : PathMatches(Patterns[r], path)
    THEN CHOOSE r \in 1..Len(Patterns) : PathMatches(Patterns[r], path)
    ELSE 0

\* r.PathValue(name): the segment the pattern's wildcard `name` matched, "" when
\* the pattern has no such wildcard
PathValue(r, path, name) ==
    IF \E k \in 1..Len(Patterns[r]) :
           Patterns[r][k].wild /\ Patterns[r][k].name = name
    THEN path[CHOOSE k \in 1..Len(Patterns[r]) :
                  Patterns[r][k].wild /\ Patterns[r][k].name = name]
    ELSE ""

\* mutant: every handler looks for the tag
Wanted_Tag(r, path) ==
    PathValue(r, path, "tag")

\* proxy.go:74, 104: the name the handler looks for: the tag on the first
\* route (taggedHandler), the file on the other two (taggedFileHandler)
Wanted(r, path) ==
    IF r = 1 THEN PathValue(r, path, "tag") ELSE PathValue(r, path, "file")

\* proxy.go:66, 96 against 246, 275: the handlers of the TokenManager variant
\* bind (owner, repo) to the context, those of the single-source variant do not
HandlerBinds ==
    variant = "manager"

\* auth.go:75-84: the outbound call starts with an installation lookup when
\* the TokenManager discovers installations and has no source for the owner
NeedsLookup(cached) ==
    variant = "manager" /\ installationId = NoInstallation /\ ~cached

\* proxy.go:190, auth.go:84, 112-125: where an outbound call starts, and under
\* which context: the lookup builds its request with http.NewRequest and
\* sends it with http.DefaultClient, which is the background context
CallStart(cached) ==
    IF NeedsLookup(cached)
    THEN [pc |-> "lookup", ctx |-> "background"]
    ELSE [pc |-> "token", ctx |-> ""]

\* net/http: the status the client sees: 200 when the handler returned or wrote
\* the body without having called WriteHeader
ResponseStatus(h) ==
    IF h.status = 0 THEN 200 ELSE h.status

\* proxy.go:54-67, 89-97 the handler's view of a request that arrives: no
\* pattern matches: the mux's own 404; else the path values, the binding of
\* (owner, repo) and the release-metadata call of files() started
NewRequest(method, path, cached) ==
    LET r == Route(method, path)
    IN  IF r = 0
                  THEN [NoRequest EXCEPT !.pc = "done", !.method = method,
                                         !.path = path, !.status = 404,
                                         !.wrote = "text"]
                  ELSE [NoRequest EXCEPT !.pc = CallStart(cached).pc,
                                         !.ctx = CallStart(cached).ctx,
                                         !.method = method, !.path = path,
                                         !.route = r,
                                         !.user = PathValue(r, path, "user"),
                                         !.repo = PathValue(r, path, "repo"),
                                         !.tag = PathValue(r, path, "tag"),
                                         !.file = PathValue(r, path, "file"),
                                         !.want = Wanted(r, path),
                                         !.bound = HandlerBinds,
                                         !.cached = cached,
                                         !.call = "meta", !.metaCalls = 1]

\* mutant: a request for the path just served with success is answered from
\* what that request fetched
Dispatch_FromCache(h, method, path, cached) ==
    IF h.wrote = "asset" /\ h.path = path
    THEN [h EXCEPT !.metaCalls = 0, !.assetCalls = 0]
    ELSE LET n == NewRequest(method, path, cached)
         IN  [n EXCEPT !.upstream = h.upstream + n.metaCalls, !.prev = h.prev]

\* proxy.go:32-36, 59-119: the proxy holds a client, a logger and the mux and
\* nothing of an earlier request: each request starts from the handler's own
\* locals; what the model carries across requests is its count of the upstream
\* calls made so far and its record of the request before
Dispatch(h, method, path, cached) ==
    LET n == NewRequest(method, path, cached)
    IN  [n EXCEPT !.upstream = h.upstream + n.metaCalls, !.prev = h.prev]

\* proxy.go:54-57 ServeHTTP hands the request to the mux
ServeHTTP(method, path, cached) ==
    /\ hnd.pc = "idle"
    /\ hnd' = Dispatch(hnd, method, path, cached)
    /\ UNCHANGED <<transportVars, boot>>

\* mutant: the handler returns on an error without answering
CallFailed_Silent(h, why) ==
    [h EXCEPT !.pc = "done", !.ctx = "",
              !.metaResult = IF h.call = "meta" THEN why ELSE @,
              !.assetResult = IF h.call = "asset" THEN why ELSE @]

\* proxy.go:68-72, 77-81, 107-111: files() or file() returned an error: the
\* handler answers http.Error(..., 500) and returns
CallFailed(h, why) ==
    [h EXCEPT !.pc = "done", !.ctx = "", !.status = 500, !.wrote = "text",
              !.metaResult = IF h.call = "meta" THEN why ELSE @,
              !.assetResult = IF h.call = "asset" THEN why ELSE @]

\* auth.go:84, 111-142 lookupRepoInstallation inside client.Do: the call is
\* not tied to the inbound request, so it completes whether or not that
\* request was cancelled; it fails or yields the installation, and the source
\* getOrSetSource stores serves the owner from then on
HandlerLookup(failed) ==
    /\ hnd.pc = "lookup"
    /\ hnd' = IF failed
              THEN [CallFailed(hnd, "lookup_error")
                        EXCEPT !.detached = @ \/ hnd.cancelled]
              ELSE [hnd EXCEPT !.pc = "token", !.ctx = "", !.cached = TRUE,
                               !.detached = @ \/ hnd.cancelled]
    /\ UNCHANGED <<transportVars, boot>>

\* auth.go:71, 81, 92 (proxy.go:363) ts.Token() inside client.Do: an error is
\* the error of the call; a token lets http.DefaultTransport.RoundTrip send the
\* request, which carries the handler's context (proxy.go:130, 153)
HandlerToken(failed) ==
    /\ hnd.pc = "token"
    /\ hnd' = IF failed
              THEN CallFailed(hnd, "token_error")
              ELSE [hnd EXCEPT !.pc = "net", !.ctx = "inbound"]
    /\ UNCHANGED <<transportVars, boot>>

\* what the upstream can answer to the release-metadata call
MetaOutcomes ==
    {[kind |-> k, assets |-> <<>>] :
         k \in {"transport_error", "status", "undecodable"}}
    \cup {[kind |-> "ok", assets |-> l] : l \in AssetLists}

\* proxy.go:134-149 the rest of files(): a transport error (the only outcome
\* once the request's context is cancelled) opens no body; any response has
\* its body closed by the deferred Close on return; only a decoded 200 yields
\* the assets, and the handler's scan starts at the first
FilesReturn(out) ==
    /\ hnd.pc = "net"
    /\ hnd.call = "meta"
    /\ hnd.cancelled => out.kind = "transport_error"
    /\ hnd' = IF out.kind = "transport_error"
              THEN CallFailed(hnd, out.kind)
              ELSE IF out.kind \in {"status", "undecodable"}
              THEN [CallFailed(hnd, out.kind) EXCEPT !.metaBody = "closed"]
              ELSE [hnd EXCEPT !.pc = "scan", !.ctx = "",
                               !.metaResult = "ok", !.metaBody = "closed",
                               !.assets = out.assets, !.i = 1]
    /\ UNCHANGED <<transportVars, boot>>

\* mutant: the comparison ignores letter case
Matches_FoldCase(name, want) ==
    (IF name = "A" THEN "a" ELSE name) = (IF want = "A" THEN "a" ELSE want)

\* mutant: every asset is taken for the requested one
Matches_Any(name, want) ==
    TRUE

\* proxy.go:74, 104 file.Name == tag, f.Name == file: Go string equality
Matches(name, want) ==
    name = want

\* proxy.go:86-87 against 116-119: the loop ended without a match:
\* taggedHandler (route 1) returns having written nothing, taggedFileHandler
\* answers http.Error(..., 404)
NoMatch(h) ==
    IF h.route = 1
    THEN [h EXCEPT !.pc = "done"]
    ELSE [h EXCEPT !.pc = "done", !.status = 404, !.wrote = "text"]

\* proxy.go:73-86, 103-116 one turn of the loop over the assets: past the
\* end: NoMatch; a match: file() starts the asset call for that asset's API
\* URL; else the next asset
HandlerScan ==
    /\ hnd.pc = "scan"
    /\ hnd' = IF hnd.i > Len(hnd.assets)
              THEN NoMatch(hnd)
              ELSE IF Matches(hnd.assets[hnd.i], hnd.want)
              THEN [hnd EXCEPT !.pc = CallStart(hnd.cached).pc,
                               !.ctx = CallStart(hnd.cached).ctx,
                               !.call = "asset", !.assetCalls = @ + 1,
                               !.upstream = @ + 1,
                               !.fetched = hnd.i]
              ELSE [hnd EXCEPT !.i = @ + 1]
    /\ UNCHANGED <<transportVars, boot>>

\* what the upstream can answer to the asset call
AssetOutcomes ==
    {"transport_error", "status", "ok"}

\* proxy.go:159-167 the rest of file(): a transport error opens no body; a
\* non-200 response is turned into an error with its body left as it is; a
\* 200 hands the open body to the handler, which defers its Close
FileReturn(out) ==
    /\ hnd.pc = "net"
    /\ hnd.call = "asset"
    /\ hnd.cancelled => out = "transport_error"
    /\ hnd' = IF out = "transport_error"
              THEN CallFailed(hnd, out)
              ELSE IF out = "status"
              THEN [CallFailed(hnd, out) EXCEPT !.assetBody = "open"]
              ELSE [hnd EXCEPT !.pc = "copy", !.assetResult = "ok",
                               !.assetBody = "open"]
    /\ UNCHANGED <<transportVars, boot>>

\* proxy.go:82-84, 112-114 io.Copy(w, d), return, deferred d.Close(): the copy
\* runs to the end or stops at the first read or write error (the only outcome
\* once the request is cancelled); its error is dropped; the first Write sends
\* status 200; the body is closed on return
HandlerCopy(complete) ==
    /\ hnd.pc = "copy"
    /\ hnd.cancelled => ~complete
    /\ hnd' = [hnd EXCEPT !.pc = "done", !.ctx = "", !.status = 200,
                          !.wrote = IF complete THEN "asset" ELSE "partial",
                          !.body = IF complete THEN hnd.fetched ELSE 0,
                          !.assetBody = "closed"]
    /\ UNCHANGED <<transportVars, boot>>

\* the inbound request's context is cancelled (client disconnect) while the
\* handler runs
Cancel ==
    /\ hnd.pc \notin {"idle", "done"}
    /\ ~hnd.cancelled
    /\ hnd' = [hnd EXCEPT !.cancelled = TRUE]
    /\ UNCHANGED <<transportVars, boot>>

\* the server between requests; the cache may already hold the owner's source
\* where there is a cache
RouterNext ==
    \/ \E method \in Methods, path \in Paths,
          cached \in {FALSE, NeedsLookup(FALSE)} :
           ServeHTTP(method, path, cached)
    \/ \E failed \in BOOLEAN : HandlerLookup(failed)
    \/ \E failed \in BOOLEAN : HandlerToken(failed)
    \/ \E out \in MetaOutcomes : FilesReturn(out)
    \/ HandlerScan
    \/ \E out \in AssetOutcomes : FileReturn(out)
    \/ \E complete \in BOOLEAN : HandlerCopy(complete)
    \/ Cancel

SpecRouter == Init /\ [][RouterNext]_vars

\* the record of a request kept for the next
Summary(h) ==
    [assets |-> h.assets, fetched |-> h.fetched, body |-> h.body,
     metaCalls |-> h.metaCalls, assetCalls |-> h.assetCalls]

\* the client sends the GET request for a download path it was just served
\* with success once more
Repeat ==
    /\ hnd.pc = "done"
    /\ hnd.method = "GET"
    /\ hnd.route = 3
    /\ hnd.wrote = "asset"
    /\ hnd.prev = NoRequest.prev
    /\ hnd' = [Dispatch(hnd, hnd.method, hnd.path, hnd.cached)
                   EXCEPT !.prev = Summary(hnd)]
    /\ UNCHANGED <<transportVars, boot>>

\* requests of clients that stay connected, and their repetition
RepeatNext ==
    \/ \E method \in Methods, path \in Paths,
          cached \in {FALSE, NeedsLookup(FALSE)} :
           ServeHTTP(method, path, cached)
    \/ \E failed \in BOOLEAN : HandlerLookup(failed)
    \/ \E failed \in BOOLEAN : HandlerToken(failed)
    \/ \E out \in MetaOutcomes : FilesReturn(out)
    \/ HandlerScan
    \/ \E out \in AssetOutcomes : FileReturn(out)
    \/ \E complete \in BOOLEAN : HandlerCopy(complete)
    \/ Repeat

SpecRepeat == Init /\ [][RepeatNext]_vars

\* ======================================================================
\* Vocabulary of the handler claims
\* ======================================================================
\* the handler has returned for a request one of the three patterns served
Handled ==
    hnd.pc = "done" /\ hnd.route # 0

\* the position of the first asset named exactly `want`, 0 when there is none
FirstMatch(assets, want) ==
    IF \E k \in 1..Len(assets) : assets[k] = want
    THEN CHOOSE k \in 1..Len(assets) :
             /\ assets[k] = want
             /\ \A j \in 1..(k - 1) : assets[j] # want
    ELSE 0

\* ======================================================================
\* C11
\* ======================================================================
\* C11: on each of the three routes, a request whose release metadata was
\* fetched successfully and whose requested name equals no asset's name is
\* answered with status 404.
NoMatchAnswers404 ==
    (Handled /\ hnd.metaResult = "ok" /\ FirstMatch(hnd.assets, hnd.want) = 0)
        => ResponseStatus(hnd) = 404

\* ======================================================================
\* C12
\* ======================================================================
\* C12: a request makes the asset call only after its metadata call
\* succeeded and an asset matched: a failed metadata call, a non-success
\* answer or a list without the requested name leaves the request with its
\* one metadata call and no second upstream call.
AssetCallOnlyAfterMatch ==
    /\ hnd.metaCalls <= 1
    /\ hnd.assetCalls <= 1
    /\ (hnd.assetCalls > 0 \/ hnd.call = "asset" \/ hnd.fetched # 0) =>
           /\ hnd.metaResult = "ok"
           /\ FirstMatch(hnd.assets, hnd.want) # 0
    /\ Handled /\ hnd.metaResult \in {"lookup_error", "token_error",
                                      "transport_error", "status",
                                      "undecodable"}
           => hnd.assetCalls = 0 /\ hnd.assetResult = ""

\* a request for a file the release's non-empty asset list does not hold ended
\* with 404 after its single metadata call
MissingFileNoSecondCall ==
    /\ Handled
    /\ hnd.route = 2
    /\ hnd.metaResult = "ok"
    /\ Len(hnd.assets) = MaxAssets
    /\ FirstMatch(hnd.assets, hnd.want) = 0
    /\ hnd.status = 404
    /\ hnd.metaCalls = 1
    /\ hnd.assetCalls = 0

\* ======================================================================
\* C13
\* ======================================================================
\* the ways the metadata call and the asset call fail
CallFailures ==
    {"lookup_error", "token_error", "transport_error", "status", "undecodable"}

\* C13: a request on which the token retrieval, the transport, the metadata
\* answer (non-200 or undecodable) or the asset answer (non-200) failed ends
\* with status 500 and a plain-text message and no asset bytes; a request whose
\* asset call answered 200 ends with status 200.
FailureIs500SuccessIs200 ==
    Handled =>
        /\ (hnd.metaResult \in CallFailures \/ hnd.assetResult \in CallFailures)
               => hnd.status = 500 /\ hnd.wrote = "text"
        /\ hnd.assetResult = "ok"
               => ResponseStatus(hnd) = 200 /\ hnd.wrote \in {"asset", "partial"}

\* a request whose asset call was answered with a non-200 status ended 500
AssetStatusEnded500 ==
    /\ Handled
    /\ hnd.metaResult = "ok"
    /\ hnd.assetResult = "status"
    /\ hnd.status = 500
    /\ hnd.wrote = "text"

\* ======================================================================
\* C14
\* ======================================================================
\* C14: the asset a request fetches is the first of the list, in the order
\* the provider returned it, whose name equals the requested name exactly
\* (a name differing in case or longer by a suffix is no match); the URL
\* requested is that asset's, a request with a match fetches it, and no
\* second asset is fetched.
FirstExactMatchFetched ==
    /\ hnd.fetched # 0 =>
           /\ hnd.fetched = FirstMatch(hnd.assets, hnd.want)
           /\ hnd.assets[hnd.fetched] = hnd.want
           /\ hnd.assetCalls = 1
    /\ (Handled /\ hnd.metaResult = "ok"
            /\ FirstMatch(hnd.assets, hnd.want) # 0)
           => hnd.fetched = FirstMatch(hnd.assets, hnd.want)

\* the requested name stands twice in the list, behind a name that differs
\* from it in case or by a suffix only: the second asset was fetched
SecondOfThreeFetched ==
    /\ Handled
    /\ hnd.want = "a"
    /\ Len(hnd.assets) = 3
    /\ hnd.assets[1] \in {"A", "ab"}
    /\ hnd.assets[2] = "a"
    /\ hnd.assets[3] = "a"
    /\ hnd.fetched = 2
    /\ hnd.wrote = "asset"

\* ======================================================================
\* C15
\* ======================================================================
\* C15: when the handler has returned, every upstream response body it
\* opened (the metadata response, the asset response) is closed, whichever
\* way the request ended.
BodiesClosedOnReturn ==
    hnd.pc = "done" => hnd.metaBody # "open" /\ hnd.assetBody # "open"

\* ======================================================================
\* C16
\* ======================================================================
\* C16: every outbound call in flight for a request (installation lookup,
\* metadata call, asset call) and the streaming copy run under the context
\* of the inbound request, and none of them runs on to its end after that
\* request was cancelled.
CancellationFollowsInbound ==
    /\ hnd.pc \in {"lookup", "net", "copy"} => hnd.ctx = "inbound"
    /\ ~hnd.detached

\* ======================================================================
\* C20
\* ======================================================================
\* C20: a request with a method other than GET is not served by the release
\* handlers and makes no upstream call, and a request whose path matches no
\* pattern gets the mux's not-found answer and makes no upstream call.
OnlyGetIsServed ==
    /\ hnd.method \notin {"", "GET"} =>
           hnd.route = 0 /\ hnd.metaCalls = 0 /\ hnd.assetCalls = 0
    /\ (hnd.pc # "idle"
            /\ \A r \in 1..Len(Patterns) : ~PathMatches(Patterns[r], hnd.path))
           => /\ hnd.pc = "done"
              /\ hnd.status = 404
              /\ hnd.metaCalls = 0
              /\ hnd.assetCalls = 0

\* ======================================================================
\* Startup (main.go:97-142, unnamed/part_000:16-59, auth.go:26-62)
\* ======================================================================
\* mutant: the client id is looked at first
Identity_ClientFirst(appId, clientId) ==
    IF clientId THEN "clientId" ELSE IF appId THEN "appId" ELSE ""

\* part_000:20-27, auth.go:30-37 the switch over the configured identity: the
\* first case that holds decides; "" is the default case
Identity(appId, clientId) ==
    IF appId THEN "appId" ELSE IF clientId THEN "clientId" ELSE ""

\* main.go:103-115 loadConfig and the read of the private key file: the
\* configuration a start may find (appId and clientId set or nil, installationId
\* nil or a number, a key the signer accepts or not)
LoadConfig(appId, clientId, inst, keyOk) ==
    /\ boot.pc = "off"
    /\ boot' = [boot EXCEPT !.pc = "identity", !.appId = appId,
                            !.clientId = clientId, !.installationId = inst,
                            !.keyOk = keyOk]
    /\ UNCHANGED <<transportVars, hnd>>

\* part_000:33-35 against auth.go:42-49: buildTokenSource with an installationId
\* builds the installation token source from it at once and lists nothing;
\* without one it lists; NewTokenManager builds the manager and always lists
AfterIdentity(b) ==
    IF variant = "manager"
    THEN [b EXCEPT !.pc = "listing", !.manager = TRUE]
    ELSE IF b.installationId # NoInstallation
    THEN [b EXCEPT !.pc = "built", !.source = b.installationId]
    ELSE [b EXCEPT !.pc = "listing"]

\* part_000:20-30, auth.go:30-40: the identity switch and
\* githubauth.NewApplicationTokenSource: no identity, or a key the signer
\* rejects, is the constructor's error
SelectIdentity ==
    /\ boot.pc = "identity"
    /\ LET id == Identity(boot.appId, boot.clientId)
       IN  boot' = IF id = ""
                   THEN [boot EXCEPT !.pc = "failed", !.err = "no_identity"]
                   ELSE IF ~boot.keyOk
                   THEN [boot EXCEPT !.pc = "failed", !.identity = id,
                                     !.err = "signer"]
                   ELSE [AfterIdentity(boot) EXCEPT !.identity = id]
    /\ UNCHANGED <<transportVars, hnd>>

\* what GET /app/installations can answer (auth.go:153-182): an error, or the
\* installations of the App, named 41, 42, ... in the order listed
ListingResults ==
    {[failed |-> TRUE, installations |-> <<>>]}
    \cup {[failed |-> FALSE, installations |-> [k \in 1..n |-> 40 + k]] :
              n \in 0..MaxInstallations}

\* mutant: of several installations the first is taken
ListedSingle_PickFirst(b, r) ==
    IF r.failed
    THEN [b EXCEPT !.pc = "failed", !.err = "listing"]
    ELSE IF Len(r.installations) = 0
    THEN [b EXCEPT !.pc = "failed", !.err = "none_found"]
    ELSE [b EXCEPT !.pc = "built", !.source = r.installations[1]]

\* part_000:38-58 buildTokenSource after discoverInstallations: an error and
\* an empty list are errors; a single installation is used; several are
\* printed and are an error
ListedSingle(b, r) ==
    IF r.failed
    THEN [b EXCEPT !.pc = "failed", !.err = "listing"]
    ELSE IF Len(r.installations) = 0
    THEN [b EXCEPT !.pc = "failed", !.err = "none_found"]
    ELSE IF Len(r.installations) = 1
    THEN [b EXCEPT !.pc = "built", !.source = r.installations[1]]
    ELSE [b EXCEPT !.pc = "failed", !.err = "multiple", !.printed = "list"]

\* auth.go:49-61 NewTokenManager after discoverInstallations: an error and an
\* empty list print a warning, a non-empty list is printed; the manager is
\* returned with a nil error in each case
ListedManager(b, r) ==
    IF r.failed \/ Len(r.installations) = 0
    THEN [b EXCEPT !.pc = "built", !.printed = "warning"]
    ELSE [b EXCEPT !.pc = "built", !.printed = "list"]

\* part_000:38, auth.go:49 discoverInstallations(appTokenSource) and what the
\* constructor makes of its answer
Discover(r) ==
    /\ boot.pc = "listing"
    /\ LET b == [boot EXCEPT !.listed = IF r.failed THEN "error" ELSE "ok",
                             !.installations = r.installations]
       IN  boot' = IF variant = "manager"
                   THEN ListedManager(b, r)
                   ELSE ListedSingle(b, r)
    /\ UNCHANGED <<transportVars, hnd>>

\* mutant: the server is started whatever startProxy's steps returned
StartServer_Regardless ==
    /\ boot.pc \in {"built", "failed"}
    /\ boot' = [boot EXCEPT !.pc = "serving", !.server = TRUE]
    /\ UNCHANGED <<transportVars, hnd>>

\* main.go:117-141 the constructor returned without error: the proxy is built
\* over its result and the server goroutine is started; a constructor error
\* (pc "failed") makes startProxy return it instead
StartServer ==
    /\ boot.pc = "built"
    /\ boot' = [boot EXCEPT !.pc = "serving", !.server = TRUE]
    /\ UNCHANGED <<transportVars, hnd>>

StartupNext ==
    \/ \E appId \in BOOLEAN, clientId \in BOOLEAN,
          inst \in {NoInstallation} \cup InstallIds, keyOk \in BOOLEAN :
           LoadConfig(appId, clientId, inst, keyOk)
    \/ SelectIdentity
    \/ \E r \in ListingResults : Discover(r)
    \/ StartServer

SpecStartup == Init /\ [][StartupNext]_vars

\* ======================================================================
\* C17
\* ======================================================================
\* the listing at startup answered with several installations and the
\* configuration names none
Ambiguous ==
    /\ boot.listed = "ok"
    /\ boot.installationId = NoInstallation
    /\ Len(boot.installations) > 1

ZeroInstallationsFailStartup ==
    (boot.listed = "ok" /\ Len(boot.installations) = 0) =>
        /\ boot.pc = "failed"
        /\ boot.err # ""
        /\ ~boot.manager
        /\ ~boot.server

\* ======================================================================
\* C19
\* ======================================================================
\* C19: the constructor fails when neither appId nor clientId is set and
\* when the signer rejects the private key, and then builds nothing and no
\* server starts; a set appId is the identity used, also beside a set
\* clientId; the clientId is used only when the appId is absent.
IdentitySelection ==
    boot.pc \notin {"off", "identity"} =>
        /\ (~boot.appId /\ ~boot.clientId) =>
               boot.pc = "failed" /\ boot.err = "no_identity"
        /\ boot.appId => boot.identity = "appId"
        /\ (~boot.appId /\ boot.clientId) => boot.identity = "clientId"
        /\ boot.identity = "clientId" => ~boot.appId
        /\ ((boot.appId \/ boot.clientId) /\ ~boot.keyOk) =>
               boot.pc = "failed" /\ boot.err = "signer"
        /\ boot.err \in {"no_identity", "signer"} =>
               /\ ~boot.manager
               /\ boot.source = NoInstallation
               /\ boot.listed = "no"
               /\ ~boot.server

\* a start with both identities configured runs as the appId
BothSetServesAsAppId ==
    /\ boot.appId
    /\ boot.clientId
    /\ boot.keyOk
    /\ boot.identity = "appId"
    /\ boot.pc = "serving"

\* ======================================================================
\* C21
\* ======================================================================
\* the patterns a path matches
MatchingPatterns(path) ==
    {r \in 1..Len(Patterns) : PathMatches(Patterns[r], path)}

\* every path of up to one segment more than the longest pattern, over a
\* plain segment and the two literal ones
SegmentPaths ==
    UNION {[1..n -> {"acme", "releases", "download"}] :
               n \in 0..(Len(Patterns[3]) + 1)}

\* C21: a request served for a three-segment path carries (owner, repo, tag)
\* from its segments, no file, and looks for the asset named as the tag; one
\* served for a four-segment path, or for a six-segment path
\* /{owner}/{repo}/releases/download/{tag}/{file}, carries (owner, repo, tag,
\* file) and looks for the asset named as the file; no path matches two of
\* the patterns.
RouteParsing ==
    /\ \A path \in Paths : Cardinality(MatchingPatterns(path)) <= 1
    /\ hnd.pc = "idle" =>
           \A path \in SegmentPaths :
               /\ Cardinality(MatchingPatterns(path)) <= 1
               /\ (MatchingPatterns(path) # {}) = (Len(path) \in {3, 4}
                       \/ (Len(path) = 6 /\ path[3] = "releases"
                               /\ path[4] = "download"))
    /\ hnd.route # 0 =>
           /\ hnd.route \in MatchingPatterns(hnd.path)
           /\ hnd.user = hnd.path[1]
           /\ hnd.repo = hnd.path[2]
    /\ hnd.route = 1 =>
           /\ Len(hnd.path) = 3
           /\ hnd.tag = hnd.path[3]
           /\ hnd.file = ""
           /\ hnd.want = hnd.tag
    /\ hnd.route = 2 =>
           /\ Len(hnd.path) = 4
           /\ hnd.tag = hnd.path[3]
           /\ hnd.file = hnd.path[4]
           /\ hnd.want = hnd.file
    /\ hnd.route = 3 =>
           /\ Len(hnd.path) = 6
           /\ hnd.path[3] = "releases" /\ hnd.path[4] = "download"
           /\ hnd.tag = hnd.path[5]
           /\ hnd.file = hnd.path[6]
           /\ hnd.want = hnd.file
    /\ (hnd.pc # "idle" /\ Len(hnd.path) \in {3, 4}) => hnd.route # 0

\* the download path /acme/widgets/releases/download/v1/ab fetched the asset
\* named ab of the release tagged v1
DownloadPathFetchedFile ==
    /\ Handled
    /\ hnd.path = <<"acme", "widgets", "releases", "download", "v1", "ab">>
    /\ hnd.user = "acme" /\ hnd.repo = "widgets"
    /\ hnd.tag = "v1" /\ hnd.file = "ab"
    /\ hnd.fetched # 0
    /\ hnd.assets[hnd.fetched] = "ab"

\* ======================================================================
\* The process around the server (main.go:16-81, 97-181)
\* ======================================================================
Modes == {"daemon", "run"}

\* what makes startProxy return before it builds the token source
\* (main.go:98-115): no config directory, an unreadable configuration, an
\* unreadable private key file
LoadErrors == {"config_dir", "config", "key_file"}

\* main.go:60-79 the command line picks cmdDaemon or cmdRun, each of which
\* calls startProxy first
Main(mode) ==
    /\ boot.pc = "off"
    /\ boot.mode = ""
    /\ boot' = [boot EXCEPT !.mode = mode]
    /\ UNCHANGED <<transportVars, hnd>>

\* main.go:98-115 findConfigDir, loadConfig or os.ReadFile failed: startProxy
\* returns the error
LoadFailed(why) ==
    /\ boot.pc = "off"
    /\ boot.mode # ""
    /\ boot' = [boot EXCEPT !.pc = "failed", !.err = why]
    /\ UNCHANGED <<transportVars, hnd>>

\* main.go:134-139 the goroutine's svr.ListenAndServe(): it binds the address
\* and accepts, or fails to bind (the error is printed, nothing else learns of
\* it); after Shutdown was called it returns ErrServerClosed at once
ListenAndServe(ok) ==
    /\ boot.pc = "serving"
    /\ boot.listener = "none"
    /\ boot' = [boot EXCEPT !.listener = IF boot.shutdown # "no" THEN "closed"
                                         ELSE IF ok THEN "accepting"
                                         ELSE "failed"]
    /\ UNCHANGED <<transportVars, hnd>>

\* net/http: the accepting listener takes a connection and a request starts
Accept ==
    /\ boot.pc = "serving"
    /\ boot.listener = "accepting"
    /\ boot.inflight < MaxInflight
    /\ boot' = [boot EXCEPT !.inflight = @ + 1]
    /\ UNCHANGED <<transportVars, hnd>>

\* a request in flight ends (its handler returned)
Finish ==
    /\ boot.pc = "serving"
    /\ boot.inflight > 0
    /\ boot' = [boot EXCEPT !.inflight = @ - 1]
    /\ UNCHANGED <<transportVars, hnd>>

\* main.go:156-163 SIGINT or SIGTERM arrives at the waiting daemon, which
\* calls svr.Shutdown under a context of GraceTicks seconds; Shutdown closes
\* the listener first
Signal ==
    /\ boot.mode = "daemon"
    /\ boot.pc = "serving"
    /\ boot.shutdown = "no"
    /\ boot' = [boot EXCEPT !.shutdown = "draining", !.grace = GraceTicks,
                            !.listener = IF @ = "accepting" THEN "closed"
                                         ELSE @]
    /\ UNCHANGED <<transportVars, hnd>>

\* a second of the grace period passes
Tick ==
    /\ boot.pc = "serving"
    /\ boot.shutdown = "draining"
    /\ boot.grace > 0
    /\ boot' = [boot EXCEPT !.grace = @ - 1]
    /\ UNCHANGED <<transportVars, hnd>>

\* mutant: Shutdown is called under a context without deadline
ShutdownMayReturn_NoDeadline(b) ==
    b.inflight = 0

\* net/http Server.Shutdown(ctx): it returns nil once no connection is active
\* and ctx.Err() once the context is done
ShutdownMayReturn(b) ==
    b.inflight = 0 \/ b.grace = 0

\* main.go:163, 61-64 Shutdown returns, cmdDaemon returns its result and the
\* process ends, with whatever is still in flight
ShutdownReturn ==
    /\ boot.pc = "serving"
    /\ boot.shutdown = "draining"
    /\ ShutdownMayReturn(boot)
    /\ boot' = [boot EXCEPT !.pc = "exited",
                            !.shutdown = IF boot.inflight = 0 THEN "done"
                                         ELSE "timeout"]
    /\ UNCHANGED <<transportVars, hnd>>

\* main.go:172-177 startProxy has returned: cmdRun starts the command with
\* PKL_PROXY_LISTEN_ADDRESS set and waits for it; nothing is awaited in
\* between, so the listener is in whatever state the goroutine has reached
RunCommand ==
    /\ boot.mode = "run"
    /\ boot.pc = "serving"
    /\ boot.cmd = "none"
    /\ boot' = [boot EXCEPT !.cmd = "running", !.launchedWith = boot.listener]
    /\ UNCHANGED <<transportVars, hnd>>

\* main.go:177-180, 70-80 the command exits, cmdRun returns and the process
\* ends
CommandExit ==
    /\ boot.pc = "serving"
    /\ boot.cmd = "running"
    /\ boot' = [boot EXCEPT !.pc = "exited", !.cmd = "exited"]
    /\ UNCHANGED <<transportVars, hnd>>

ProcessNext ==
    \/ \E mode \in Modes : Main(mode)
    \/ \E why \in LoadErrors : LoadFailed(why)
    \/ boot.mode # "" /\ StartupNext
    \/ \E ok \in BOOLEAN : ListenAndServe(ok)
    \/ Accept
    \/ Finish
    \/ Signal
    \/ Tick
    \/ ShutdownReturn
    \/ RunCommand
    \/ CommandExit

\* time passes and a Shutdown that may return does
SpecProcess ==
    Init /\ [][ProcessNext]_vars /\ WF_vars(Tick) /\ WF_vars(ShutdownReturn)

\* ======================================================================
\* Vocabulary of the process claims
\* ======================================================================
\* the two phases of the started server
Running(b) ==
    b.pc = "serving" /\ b.shutdown = "no"

Draining(b) ==
    b.pc = "serving" /\ b.shutdown = "draining"

\* ======================================================================
\* C22
\* ======================================================================
\* C22: the daemon runs, then drains, and never runs again: from the signal
\* on no connection is accepted, the requests in flight may end and none is
\* cut while the drain lasts, the grace period only runs down, and the
\* shutdown completes, at the latest when the grace period is over, also with
\* a request still in flight.
DaemonRunsThenDrains ==
    /\ [][/\ ~Running(boot) /\ boot.pc # "built" => ~Running(boot')
          /\ boot.shutdown # "no" =>
                 /\ boot'.shutdown # "no"
                 /\ boot'.listener # "accepting"
                 /\ boot'.inflight <= boot.inflight
          /\ (Draining(boot) /\ Draining(boot')) => boot'.grace <= boot.grace
          /\ (Running(boot) /\ ~Running(boot')) =>
                 \/ boot.mode = "daemon" /\ Draining(boot')
                        /\ boot'.grace = GraceTicks
                        /\ boot'.inflight = boot.inflight
                 \/ boot.mode = "run" /\ boot'.pc = "exited"]_vars
    /\ [](Draining(boot) => boot.mode = "daemon" /\ boot.grace \in 0..GraceTicks)
    /\ (Draining(boot) ~> boot.pc = "exited")

\* the shutdown ended at the deadline with requests in flight
ShutdownEndedAtDeadline ==
    /\ boot.mode = "daemon"
    /\ boot.pc = "exited"
    /\ boot.shutdown = "timeout"
    /\ boot.grace = 0
    /\ boot.inflight = MaxInflight

\* ======================================================================
\* C23
\* ======================================================================
\* C23: when finding or loading the configuration, reading the private key
\* or building the token source or manager failed, startProxy has returned
\* the error: no server was built, no listener bound, no request served, and
\* in run mode the command was not started.
StartErrorStartsNothing ==
    /\ boot.err # "" =>
           /\ boot.pc = "failed"
           /\ ~boot.server
           /\ boot.listener = "none"
           /\ boot.inflight = 0
           /\ boot.cmd = "none"
           /\ boot.shutdown = "no"
    /\ boot.pc = "failed" =>
           boot.err \in LoadErrors \cup {"no_identity", "signer", "listing",
                                         "none_found", "multiple"}
    /\ (boot.server \/ boot.cmd # "none" \/ boot.listener # "none") =>
           boot.err = "" /\ boot.identity # "" /\ boot.keyOk

\* a run whose private key file could not be read ended without the command
RunFailedBeforeCommand ==
    /\ boot.mode = "run"
    /\ boot.pc = "failed"
    /\ boot.err = "key_file"
    /\ boot.cmd = "none"

\* ======================================================================
\* C25
\* ======================================================================
\* C25: in run mode the command is started only when the listener accepts
\* connections on the address handed to it, and the listener accepts for as
\* long as the command runs.
CommandRunsBehindListener ==
    boot.mode = "run" =>
        /\ boot.cmd # "none" => boot.launchedWith = "accepting"
        /\ boot.cmd = "running" => boot.listener = "accepting"

\* ======================================================================
\* C24
\* ======================================================================
\* C24: a request repeated after its success makes its own metadata call
\* and its own asset call (four upstream calls for the two requests), and
\* when it succeeds too it has written the body of the asset it fetched; with
\* the same asset list upstream that is the asset, and the body, of the first
\* request.
RepeatFetchesAgainSameBytes ==
    hnd.prev # NoRequest.prev =>
        /\ hnd.prev.metaCalls = 1 /\ hnd.prev.assetCalls = 1
        /\ hnd.prev.body = hnd.prev.fetched
        /\ hnd.metaCalls = 1
        /\ hnd.upstream = 2 + hnd.metaCalls + hnd.assetCalls
        /\ (Handled /\ hnd.wrote = "asset") =>
               /\ hnd.assetCalls = 1
               /\ hnd.upstream = 4
               /\ hnd.metaResult = "ok" /\ hnd.assetResult = "ok"
               /\ hnd.body = hnd.fetched
               /\ hnd.assets = hnd.prev.assets =>
                      hnd.fetched = hnd.prev.fetched /\ hnd.body = hnd.prev.body

\* the request and its repetition both fetched the second asset of the same
\* list
RepeatedFetchSucceeded ==
    /\ Handled
    /\ hnd.prev.fetched = 2
    /\ hnd.assets = hnd.prev.assets
    /\ hnd.wrote = "asset"
    /\ hnd.body = 2
    /\ hnd.upstream = 4

\* ======================================================================
\* C26
\* ======================================================================
\* p's call is at or inside getOrSetSource
InGetOrSet(p) ==
    gor[p].pc \in {"gos_lock", "gos_wait"} \cup ExclusiveSection

\* C26 as stated: a call for an owner that was in the cache when it started
\* never asks for the exclusive lock; a call asks for it only after its
\* read-locked lookup missed, and builds only after the re-check inside it
\* missed.
HitNeverTakesExclusiveLock ==
    ManagerVariant =>
        \A p \in Procs :
            /\ gor[p].startHit => ~InGetOrSet(p) /\ wOwner # p
            /\ InGetOrSet(p) => gor[p].lookups = 1
            /\ gor[p].pc = "gos_factory" =>
                   wOwner = p /\ cache[gor[p].owner] = NoSource

\* C26: without a configured installationId a call for an owner that was in
\* the cache when it started is served under the read lock alone, and a call
\* asks for the exclusive lock only after its read-locked lookup missed and
\* its installation lookup succeeded; with a configured installationId every
\* call, hit or miss, goes straight to the exclusive lock and never takes
\* the read lock. In both modes the factory runs only inside the exclusive
\* lock after the re-check there missed, so never for an owner cached at the
\* start of the call.
HitUnderReadLockInDynamicModeOnly ==
    ManagerVariant =>
        \A p \in Procs :
            /\ DynamicMode =>
                   /\ gor[p].startHit =>
                          /\ ~InGetOrSet(p)
                          /\ wOwner # p
                          /\ gor[p].lookups = 0
                   /\ InGetOrSet(p) =>
                          /\ gor[p].lookups = 1
                          /\ gor[p].installationID # NoInstallation
                          /\ ~gor[p].startHit
                   /\ gor[p].pc \in {"lookup", "gos_lock", "gos_wait"} =>
                          ~gor[p].ok
            /\ FixedMode =>
                   /\ p \notin readers
                   /\ gor[p].pc \notin {"rlock", "rread", "runlock", "lookup"}
                   /\ gor[p].lookups = 0
                   /\ (gor[p].pc \in {"token", "send"}
                           \/ (gor[p].pc = "done" /\ gor[p].bound))
                          => gor[p].ts = cache[gor[p].owner]
            /\ gor[p].pc \in {"gos_factory", "gos_store"} =>
                   /\ wOwner = p
                   /\ readers = {}
                   /\ ~gor[p].startHit
            /\ gor[p].pc = "gos_factory" => cache[gor[p].owner] = NoSource
            /\ gor[p].startHit => gor[p].made = 0

\* with a configured installationId a call for an owner cached at its start
\* is inside the exclusive lock, where the re-check hit
FixedModeHitInsideExclusiveLock ==
    \E p \in Procs :
        /\ FixedMode
        /\ gor[p].startHit
        /\ gor[p].pc = "gos_unlock"
        /\ wOwner = p
        /\ gor[p].ok

\* ======================================================================
\* C27
\* ======================================================================
\* a request as the route handlers of the wired variant issue it: with the
\* binding of withRepo from the TokenManager variant's handlers (proxy.go:66,
\* 96), without any from the single-source variant's (proxy.go:246, 275)
HandlerIssued(g) ==
    g.bound = HandlerBinds

\* C27 as stated: every request a route handler issues carries the (owner,
\* repo) binding and never fails for a missing binding, and the source behind
\* its Authorization header is the one cached under its own owner.
HandlerRequestsBoundOwnSource ==
    /\ \A p \in Procs :
           (gor[p].pc # "idle" /\ HandlerIssued(gor[p])) =>
               /\ gor[p].bound
               /\ gor[p].err # "noctx"
    /\ \A s \in sent :
           HandlerIssued(s) =>
               /\ s.bound
               /\ s.auth.owner = s.owner
               /\ s.auth = cache[s.owner]

\* C27: with the TokenManager every request a route handler issues carries
\* the (owner, repo) binding, never fails for a missing binding, and is sent
\* with a token of the source cached under its own owner, whatever other
\* owners' requests run beside it; with the single token source the handlers
\* bind nothing, the transport reads no binding, so no request fails for a
\* missing one either, and every request is sent with that one source.
BoundRequestsOwnSourceSingleSourceForAll ==
    /\ ManagerVariant =>
           /\ \A p \in Procs :
                  (gor[p].pc # "idle" /\ HandlerIssued(gor[p])) =>
                      /\ gor[p].bound
                      /\ gor[p].owner \in Owners
                      /\ gor[p].err # "noctx"
                      /\ gor[p].pc \in {"token", "send"} =>
                             /\ gor[p].ts.owner = gor[p].owner
                             /\ gor[p].ts = cache[gor[p].owner]
           /\ \A s \in sent :
                  HandlerIssued(s) =>
                      /\ s.auth # NoSource
                      /\ s.auth.owner = s.owner
                      /\ s.auth = cache[s.owner]
    /\ ~ManagerVariant =>
           /\ \A p \in Procs :
                  (gor[p].pc # "idle" /\ HandlerIssued(gor[p])) =>
                      ~gor[p].bound /\ gor[p].err # "noctx"
           /\ \A s \in sent : s.auth = tokenSource

\* two requests for different owners are about to be sent at the same
\* time, each with its own owner's source
TwoOwnersSentSideBySide ==
    \E p, q \in Procs :
        /\ ManagerVariant
        /\ gor[p].pc = "send" /\ gor[q].pc = "send"
        /\ gor[p].owner = "acme" /\ gor[q].owner = "other"
        /\ gor[p].ts = cache["acme"] /\ gor[q].ts = cache["other"]
        /\ gor[p].ts # gor[q].ts

\* ======================================================================
\* C28
\* ======================================================================
\* C28: without a configured installationId the cache changes only by the
\* store of a call whose installation lookup for that owner succeeded, which
\* adds that owner's entry, built from the id that lookup returned, and
\* touches no other key; a call whose lookup failed has returned the error,
\* holds no lock and has built and sent nothing, and the step on which the
\* lookup fails leaves the whole cache as it was.
CacheGainsOnlyAfterOwnLookup ==
    /\ [][DynamicMode =>
            /\ \A o \in Owners :
                   cache'[o] # cache[o] =>
                       /\ cache[o] = NoSource
                       /\ \A o2 \in Owners \ {o} : cache'[o2] = cache[o2]
                       /\ \E p \in Procs :
                              /\ gor[p].pc = "gos_store"
                              /\ gor'[p].pc = "gos_unlock"
                              /\ gor[p].owner = o
                              /\ gor[p].lookups = 1
                              /\ gor[p].err = ""
                              /\ gor[p].installationID \in InstallIds
                              /\ cache'[o].inst = gor[p].installationID
                              /\ cache'[o].owner = o
            /\ \A p \in Procs :
                   (gor[p].pc = "lookup" /\ gor'[p].err = "lookup") =>
                       /\ gor'[p].pc = "done"
                       /\ cache' = cache]_vars
    /\ [](DynamicMode =>
            \A p \in Procs :
                gor[p].err = "lookup" =>
                    /\ gor[p].pc = "done"
                    /\ gor[p].installationID = NoInstallation
                    /\ gor[p].made = 0
                    /\ ~gor[p].delegated
                    /\ p \notin readers
                    /\ wOwner # p)

\* one owner's lookup succeeded with installation 42 and its source is
\* cached, the other owner's lookup failed and it has no entry
OneOwnerCachedOtherLookupFailed ==
    /\ DynamicMode
    /\ cache["acme"] # NoSource
    /\ cache["acme"].inst = 42
    /\ cache["other"] = NoSource
    /\ \E p \in Procs : gor[p].owner = "other" /\ gor[p].err = "lookup"

\* ======================================================================
\* C29
\* ======================================================================
\* C29: a call holds the read lock only between RLock and RUnlock and the
\* write lock only between Lock and the deferred Unlock, so none while it
\* waits for the network, and none when it has returned, on a hit, a miss or
\* an error; it asks for a lock only while it holds none; whenever a call is
\* under way some call can take a step; and with every runnable goroutine
\* scheduled and the network calls returning, every call returns: again and
\* again no call is under way.
LocksReleasedCallsReturn ==
    /\ [](\A p \in Procs :
             /\ p \in readers => gor[p].pc \in {"rread", "runlock"}
             /\ wOwner = p => gor[p].pc \in {"gos_wait"} \cup ExclusiveSection
             /\ gor[p].pc \in {"rlock", "gos_lock", "idle", "done"}
                                  \cup NetworkCall \cup {"send"}
                    => p \notin readers /\ wOwner # p
             /\ gor[p].pc \in {"rread", "runlock"} => p \in readers
             /\ gor[p].pc \in {"gos_wait"} \cup ExclusiveSection => wOwner = p)
    /\ []((\E p \in Procs : gor[p].pc \notin {"idle", "done"})
              => \E p \in Procs : ENABLED Step(p))
    /\ []<>(\A p \in Procs : gor[p].pc \in {"idle", "done"})

\* a call waits at RLock while another is inside the exclusive section
ReaderWaitsForWriter ==
    \E p, q \in Procs :
        /\ gor[p].pc = "rlock"
        /\ gor[q].pc \in ExclusiveSection
        /\ wOwner = q

=============================================================================
